---------------------------- MODULE Spec2Model ----------------------------
(***************************************************************************)
(* LiquidityHunter (src/app.py): swing point detection, projection of the  *)
(* liquidation price of every swing for every leverage tier, and the band  *)
(* filter around the current price.                                        *)
(*                                                                         *)
(* Prices of the series are whole numbers of the price unit, held as the   *)
(* integers they are.  Computed prices are binary floating point numbers   *)
(* (Python float, numpy float64), computed operation by operation with the *)
(* rounding of the code.  A missing value (pandas NaN) of a swing column   *)
(* is <<>>, a present value v is <<v>>.  A leverage tier is the string the *)
(* sidebar supplies, as a sequence of characters; a character that cannot  *)
(* be written in a string of the model is named by its code point, as in   *)
(* "U+FF11".                                                               *)
(***************************************************************************)
EXTENDS Integers, Sequences, FiniteSets

VARIABLES
    pc,               \* position of the run / of the call under check
    interval,         \* sidebar selectbox "Timeframe"
    date_column,      \* name of the column reset_index makes of the index of df
    leverage_tiers,   \* sidebar multiselect: sequence of tier strings
    df,               \* price series: sequence of [High, Low, Close]
    order,            \* comparison radius handed to find_swing_points
    Swing_High,       \* df['Swing_High']: <<v>> on marked bars, <<>> elsewhere
    Swing_Low,        \* df['Swing_Low']
    liq_df,           \* zones returned by calculate_liquidation_zones
    current_price,    \* df['Close'].iloc[-1], <<>> before it is read
    liq_df_filtered,  \* zones kept by the band filter
    refiltered,       \* band filter applied to liq_df_filtered
    err               \* exception that ended the call, "none" otherwise

vars == <<pc, interval, date_column, leverage_tiers, df, order, Swing_High, Swing_Low, liq_df,
          current_price, liq_df_filtered, refiltered, err>>

-----------------------------------------------------------------------------
(* Bounds of the model.                                                    *)

MaxBars == 4      \* bars of a series handed to find_swing_points
MaxOrder == 2     \* largest comparison radius tried
MaxRows == 2      \* rows of the swing columns handed to calculate_liquidation_zones
MaxTiers == 2     \* leverage tiers handed to calculate_liquidation_zones
MaxZones == 3     \* zones handed to the band filter
MaxFetch == 2     \* bars of a series fetched in the main run

(* order=5, the default of find_swing_points, used by the main run. *)
DefaultOrder == 5

-----------------------------------------------------------------------------
(* Binary floating point (IEEE-754 double, round to nearest, ties to even) *)
(* as Python computes it.  A value is s * m * 2^e, written [s, m, e]: s is *)
(* the sign (-1, 0, 1), m an odd natural number held as a sequence of      *)
(* limbs, least significant first, and e the exponent; zero is             *)
(* [s |-> 0, m |-> <<>>, e |-> 0].  The prices of the model stay far from  *)
(* the exponent range, so overflow and subnormals do not occur.            *)

Abs(n) == IF n < 0 THEN -n ELSE n

Sign(n) == IF n < 0 THEN -1 ELSE IF n = 0 THEN 0 ELSE 1

LimbBits == 15
LimbBase == 2^15

(* 53 significant bits of a double. *)
MantissaBits == 53

RECURSIVE BTrim(_)
BTrim(x) ==
    IF x = <<>> THEN x
    ELSE IF x[Len(x)] = 0 THEN BTrim(SubSeq(x, 1, Len(x) - 1)) ELSE x

RECURSIVE BFromInt(_)
BFromInt(n) ==
    IF n = 0 THEN <<>> ELSE <<n % LimbBase>> \o BFromInt(n \div LimbBase)

RECURSIVE BMulCarry(_, _, _)
BMulCarry(x, k, c) ==
    IF x = <<>> THEN BFromInt(c)
    ELSE LET t == x[1] * k + c
         IN  <<t % LimbBase>> \o BMulCarry(Tail(x), k, t \div LimbBase)

BMulSmall(x, k) == BTrim(BMulCarry(x, k, 0))

RECURSIVE BDivStep(_, _, _, _)
BDivStep(x, d, i, r) ==
    IF i = 0 THEN [q |-> <<>>, r |-> r]
    ELSE LET cur == r * LimbBase + x[i]
             rest == BDivStep(x, d, i - 1, cur % d)
         IN  [q |-> Append(rest.q, cur \div d), r |-> rest.r]

BDivSmall(x, d) ==
    LET qr == BDivStep(x, d, Len(x), 0)
    IN  [q |-> BTrim(qr.q), r |-> qr.r]

RECURSIVE BAddCarry(_, _, _)
BAddCarry(x, y, c) ==
    IF x = <<>> /\ y = <<>> THEN BFromInt(c)
    ELSE LET a == IF x = <<>> THEN 0 ELSE x[1]
             b == IF y = <<>> THEN 0 ELSE y[1]
             t == a + b + c
         IN  <<t % LimbBase>>
             \o BAddCarry(IF x = <<>> THEN x ELSE Tail(x),
                          IF y = <<>> THEN y ELSE Tail(y),
                          t \div LimbBase)

BAdd(x, y) == BAddCarry(x, y, 0)

RECURSIVE BSubBorrow(_, _, _)
BSubBorrow(x, y, c) ==
    IF x = <<>> THEN <<>>
    ELSE LET b == IF y = <<>> THEN 0 ELSE y[1]
             t == x[1] - b - c
         IN  <<t % LimbBase>>
             \o BSubBorrow(Tail(x), IF y = <<>> THEN y ELSE Tail(y),
                           IF t < 0 THEN 1 ELSE 0)

(* x - y for x >= y *)
BSub(x, y) == BTrim(BSubBorrow(x, y, 0))

RECURSIVE BCmpFrom(_, _, _)
BCmpFrom(x, y, i) ==
    IF i = 0 THEN 0
    ELSE IF x[i] # y[i] THEN Sign(x[i] - y[i])
    ELSE BCmpFrom(x, y, i - 1)

BCmp(x, y) ==
    IF Len(x) # Len(y) THEN Sign(Len(x) - Len(y))
    ELSE BCmpFrom(x, y, Len(x))

RECURSIVE IntBitLen(_)
IntBitLen(n) == IF n = 0 THEN 0 ELSE 1 + IntBitLen(n \div 2)

BBitLen(x) ==
    IF x = <<>> THEN 0
    ELSE LimbBits * (Len(x) - 1) + IntBitLen(x[Len(x)])

RECURSIVE IntTrailingZeros(_)
IntTrailingZeros(n) ==
    IF n % 2 = 1 THEN 0 ELSE 1 + IntTrailingZeros(n \div 2)

RECURSIVE BTrailingZeros(_)
BTrailingZeros(x) ==
    IF x[1] = 0 THEN LimbBits + BTrailingZeros(Tail(x))
    ELSE IntTrailingZeros(x[1])

BShl(x, n) ==
    IF x = <<>> THEN x
    ELSE BMulSmall([i \in 1..(n \div LimbBits) |-> 0] \o x,
                   2^(n % LimbBits))

BShr(x, n) ==
    IF Len(x) <= n \div LimbBits THEN <<>>
    ELSE BDivSmall(SubSeq(x, (n \div LimbBits) + 1, Len(x)),
                   2^(n % LimbBits)).q

BIsOdd(x) == x # <<>> /\ x[1] % 2 = 1

Zero == [s |-> 0, m |-> <<>>, e |-> 0]

(* s * x * 2^e in the form with an odd m *)
Dyadic(s, x, e) ==
    IF x = <<>> \/ s = 0 THEN Zero
    ELSE LET tz == BTrailingZeros(x)
         IN  [s |-> s, m |-> BShr(x, tz), e |-> e + tz]

DOfInt(i) == Dyadic(Sign(i), BFromInt(Abs(i)), 0)

DNeg(a) == [a EXCEPT !.s = -a.s]

(* exact sum *)
DAdd(a, b) ==
    IF a.s = 0 THEN b
    ELSE IF b.s = 0 THEN a
    ELSE LET e == IF a.e < b.e THEN a.e ELSE b.e
             x == BShl(a.m, a.e - e)
             y == BShl(b.m, b.e - e)
             c == BCmp(x, y)
         IN  IF a.s = b.s THEN Dyadic(a.s, BAdd(x, y), e)
             ELSE IF c = 0 THEN Zero
             ELSE IF c > 0 THEN Dyadic(a.s, BSub(x, y), e)
             ELSE Dyadic(b.s, BSub(y, x), e)

DSub(a, b) == DAdd(a, DNeg(b))

(* exact product with an integer of magnitude below LimbBase *)
DMulInt(a, k) == Dyadic(a.s * Sign(k), BMulSmall(a.m, Abs(k)), a.e)

DScale(a, n) == IF a.s = 0 THEN a ELSE [a EXCEPT !.e = a.e + n]

DAbs(a) == [a EXCEPT !.s = Abs(a.s)]

DLt(a, b) == DSub(a, b).s < 0
DGt(a, b) == DLt(b, a)
DLe(a, b) == ~DLt(b, a)

(* the double nearest to a, ties to even *)
FRound(a) ==
    LET n == BBitLen(a.m) - MantissaBits
    IN  IF n <= 0 THEN a
        ELSE LET q == BShr(a.m, n)
                 rem == BSub(a.m, BShl(q, n))
                 c == BCmp(rem, BShl(<<1>>, n - 1))
                 up == c > 0 \/ (c = 0 /\ BIsOdd(q))
             IN  Dyadic(a.s, IF up THEN BAdd(q, <<1>>) ELSE q, a.e + n)

(* float(i) of a Python int *)
FOfInt(i) == FRound(DOfInt(i))

GuardBits == 75

(* a / b of two Python ints, b # 0: the quotient of the integers rounded   *)
(* once; the last bit of x is the sticky bit of the remainder.             *)
FDivInt(a, b) ==
    LET qr == BDivSmall(BShl(BFromInt(Abs(a)), GuardBits), Abs(b))
        x == BAdd(BMulSmall(qr.q, 2), IF qr.r = 0 THEN <<>> ELSE <<1>>)
    IN  FRound(Dyadic(Sign(a) * Sign(b), x, -(GuardBits + 1)))

(* the float product, sum and difference *)
FMulInt(i, f) == FRound(DMulInt(f, i))
FAdd(a, b) == FRound(DAdd(a, b))
FSub(a, b) == FRound(DSub(a, b))

NaN == <<>>
IsNaN(x) == x = <<>>


-----------------------------------------------------------------------------
(* find_swing_points: scipy.signal.argrelextrema(values, comparator,       *)
(* order=order), whose default mode is 'clip': an index shifted past an    *)
(* end of the array reads the element at that end.  Sequences are 1-based. *)

(* The strict comparator np.greater in the place of np.greater_equal. *)
greater(a, b) == a > b

greater_equal(a, b) == a >= b
less_equal(a, b) == a <= b

(* mode='wrap' in the place of mode='clip': the index wraps around. *)
TakeWrap(data, idx) == data[((idx - 1) % Len(data)) + 1]

TakeClip(data, idx) ==
    IF idx < 1 THEN data[1]
    ELSE IF idx > Len(data) THEN data[Len(data)]
    ELSE data[idx]

HighValues(d) == [i \in 1..Len(d) |-> d[i].High]
LowValues(d) == [i \in 1..Len(d) |-> d[i].Low]

(* The boolean results array of argrelextrema on df['High'].values (its    *)
(* early return once no entry is left true gives the same array).          *)
HighExtrema(data, ord) ==
    [i \in 1..Len(data) |->
        \A shift \in 1..ord :
            /\ greater_equal(data[i], TakeClip(data, i + shift))
            /\ greater_equal(data[i], TakeClip(data, i - shift))]

(* The boolean results array of argrelextrema on df['Low'].values. *)
LowExtrema(data, ord) ==
    [i \in 1..Len(data) |->
        \A shift \in 1..ord :
            /\ less_equal(data[i], TakeClip(data, i + shift))
            /\ less_equal(data[i], TakeClip(data, i - shift))]

(* The column assigned from df.iloc[extrema]['High']: the value on the     *)
(* rows selected, NaN on the others.                                       *)
SwingColumn(data, mask) ==
    [i \in 1..Len(data) |-> IF mask[i] THEN <<data[i]>> ELSE NaN]

(* argrelextrema raises ValueError('Order must be an int >= 1'). *)
OrderError(ord) == IF ord < 1 THEN "ValueError" ELSE "none"

-----------------------------------------------------------------------------
(* The leverage of a tier string: int(lev.replace('x', '')).               *)

(* The decimal digits int() accepts: every character of the Unicode        *)
(* category Nd, in 66 runs of ten, each from its zero to its nine.  The    *)
(* first run is the ASCII digits.                                          *)
DecimalDigits == <<
    <<"0", "1", "2", "3", "4", "5", "6", "7", "8", "9">>,
    <<"U+0660", "U+0661", "U+0662", "U+0663", "U+0664",
      "U+0665", "U+0666", "U+0667", "U+0668", "U+0669">>,
    <<"U+06F0", "U+06F1", "U+06F2", "U+06F3", "U+06F4",
      "U+06F5", "U+06F6", "U+06F7", "U+06F8", "U+06F9">>,
    <<"U+07C0", "U+07C1", "U+07C2", "U+07C3", "U+07C4",
      "U+07C5", "U+07C6", "U+07C7", "U+07C8", "U+07C9">>,
    <<"U+0966", "U+0967", "U+0968", "U+0969", "U+096A",
      "U+096B", "U+096C", "U+096D", "U+096E", "U+096F">>,
    <<"U+09E6", "U+09E7", "U+09E8", "U+09E9", "U+09EA",
      "U+09EB", "U+09EC", "U+09ED", "U+09EE", "U+09EF">>,
    <<"U+0A66", "U+0A67", "U+0A68", "U+0A69", "U+0A6A",
      "U+0A6B", "U+0A6C", "U+0A6D", "U+0A6E", "U+0A6F">>,
    <<"U+0AE6", "U+0AE7", "U+0AE8", "U+0AE9", "U+0AEA",
      "U+0AEB", "U+0AEC", "U+0AED", "U+0AEE", "U+0AEF">>,
    <<"U+0B66", "U+0B67", "U+0B68", "U+0B69", "U+0B6A",
      "U+0B6B", "U+0B6C", "U+0B6D", "U+0B6E", "U+0B6F">>,
    <<"U+0BE6", "U+0BE7", "U+0BE8", "U+0BE9", "U+0BEA",
      "U+0BEB", "U+0BEC", "U+0BED", "U+0BEE", "U+0BEF">>,
    <<"U+0C66", "U+0C67", "U+0C68", "U+0C69", "U+0C6A",
      "U+0C6B", "U+0C6C", "U+0C6D", "U+0C6E", "U+0C6F">>,
    <<"U+0CE6", "U+0CE7", "U+0CE8", "U+0CE9", "U+0CEA",
      "U+0CEB", "U+0CEC", "U+0CED", "U+0CEE", "U+0CEF">>,
    <<"U+0D66", "U+0D67", "U+0D68", "U+0D69", "U+0D6A",
      "U+0D6B", "U+0D6C", "U+0D6D", "U+0D6E", "U+0D6F">>,
    <<"U+0DE6", "U+0DE7", "U+0DE8", "U+0DE9", "U+0DEA",
      "U+0DEB", "U+0DEC", "U+0DED", "U+0DEE", "U+0DEF">>,
    <<"U+0E50", "U+0E51", "U+0E52", "U+0E53", "U+0E54",
      "U+0E55", "U+0E56", "U+0E57", "U+0E58", "U+0E59">>,
    <<"U+0ED0", "U+0ED1", "U+0ED2", "U+0ED3", "U+0ED4",
      "U+0ED5", "U+0ED6", "U+0ED7", "U+0ED8", "U+0ED9">>,
    <<"U+0F20", "U+0F21", "U+0F22", "U+0F23", "U+0F24",
      "U+0F25", "U+0F26", "U+0F27", "U+0F28", "U+0F29">>,
    <<"U+1040", "U+1041", "U+1042", "U+1043", "U+1044",
      "U+1045", "U+1046", "U+1047", "U+1048", "U+1049">>,
    <<"U+1090", "U+1091", "U+1092", "U+1093", "U+1094",
      "U+1095", "U+1096", "U+1097", "U+1098", "U+1099">>,
    <<"U+17E0", "U+17E1", "U+17E2", "U+17E3", "U+17E4",
      "U+17E5", "U+17E6", "U+17E7", "U+17E8", "U+17E9">>,
    <<"U+1810", "U+1811", "U+1812", "U+1813", "U+1814",
      "U+1815", "U+1816", "U+1817", "U+1818", "U+1819">>,
    <<"U+1946", "U+1947", "U+1948", "U+1949", "U+194A",
      "U+194B", "U+194C", "U+194D", "U+194E", "U+194F">>,
    <<"U+19D0", "U+19D1", "U+19D2", "U+19D3", "U+19D4",
      "U+19D5", "U+19D6", "U+19D7", "U+19D8", "U+19D9">>,
    <<"U+1A80", "U+1A81", "U+1A82", "U+1A83", "U+1A84",
      "U+1A85", "U+1A86", "U+1A87", "U+1A88", "U+1A89">>,
    <<"U+1A90", "U+1A91", "U+1A92", "U+1A93", "U+1A94",
      "U+1A95", "U+1A96", "U+1A97", "U+1A98", "U+1A99">>,
    <<"U+1B50", "U+1B51", "U+1B52", "U+1B53", "U+1B54",
      "U+1B55", "U+1B56", "U+1B57", "U+1B58", "U+1B59">>,
    <<"U+1BB0", "U+1BB1", "U+1BB2", "U+1BB3", "U+1BB4",
      "U+1BB5", "U+1BB6", "U+1BB7", "U+1BB8", "U+1BB9">>,
    <<"U+1C40", "U+1C41", "U+1C42", "U+1C43", "U+1C44",
      "U+1C45", "U+1C46", "U+1C47", "U+1C48", "U+1C49">>,
    <<"U+1C50", "U+1C51", "U+1C52", "U+1C53", "U+1C54",
      "U+1C55", "U+1C56", "U+1C57", "U+1C58", "U+1C59">>,
    <<"U+A620", "U+A621", "U+A622", "U+A623", "U+A624",
      "U+A625", "U+A626", "U+A627", "U+A628", "U+A629">>,
    <<"U+A8D0", "U+A8D1", "U+A8D2", "U+A8D3", "U+A8D4",
      "U+A8D5", "U+A8D6", "U+A8D7", "U+A8D8", "U+A8D9">>,
    <<"U+A900", "U+A901", "U+A902", "U+A903", "U+A904",
      "U+A905", "U+A906", "U+A907", "U+A908", "U+A909">>,
    <<"U+A9D0", "U+A9D1", "U+A9D2", "U+A9D3", "U+A9D4",
      "U+A9D5", "U+A9D6", "U+A9D7", "U+A9D8", "U+A9D9">>,
    <<"U+A9F0", "U+A9F1", "U+A9F2", "U+A9F3", "U+A9F4",
      "U+A9F5", "U+A9F6", "U+A9F7", "U+A9F8", "U+A9F9">>,
    <<"U+AA50", "U+AA51", "U+AA52", "U+AA53", "U+AA54",
      "U+AA55", "U+AA56", "U+AA57", "U+AA58", "U+AA59">>,
    <<"U+ABF0", "U+ABF1", "U+ABF2", "U+ABF3", "U+ABF4",
      "U+ABF5", "U+ABF6", "U+ABF7", "U+ABF8", "U+ABF9">>,
    <<"U+FF10", "U+FF11", "U+FF12", "U+FF13", "U+FF14",
      "U+FF15", "U+FF16", "U+FF17", "U+FF18", "U+FF19">>,
    <<"U+104A0", "U+104A1", "U+104A2", "U+104A3", "U+104A4",
      "U+104A5", "U+104A6", "U+104A7", "U+104A8", "U+104A9">>,
    <<"U+10D30", "U+10D31", "U+10D32", "U+10D33", "U+10D34",
      "U+10D35", "U+10D36", "U+10D37", "U+10D38", "U+10D39">>,
    <<"U+11066", "U+11067", "U+11068", "U+11069", "U+1106A",
      "U+1106B", "U+1106C", "U+1106D", "U+1106E", "U+1106F">>,
    <<"U+110F0", "U+110F1", "U+110F2", "U+110F3", "U+110F4",
      "U+110F5", "U+110F6", "U+110F7", "U+110F8", "U+110F9">>,
    <<"U+11136", "U+11137", "U+11138", "U+11139", "U+1113A",
      "U+1113B", "U+1113C", "U+1113D", "U+1113E", "U+1113F">>,
    <<"U+111D0", "U+111D1", "U+111D2", "U+111D3", "U+111D4",
      "U+111D5", "U+111D6", "U+111D7", "U+111D8", "U+111D9">>,
    <<"U+112F0", "U+112F1", "U+112F2", "U+112F3", "U+112F4",
      "U+112F5", "U+112F6", "U+112F7", "U+112F8", "U+112F9">>,
    <<"U+11450", "U+11451", "U+11452", "U+11453", "U+11454",
      "U+11455", "U+11456", "U+11457", "U+11458", "U+11459">>,
    <<"U+114D0", "U+114D1", "U+114D2", "U+114D3", "U+114D4",
      "U+114D5", "U+114D6", "U+114D7", "U+114D8", "U+114D9">>,
    <<"U+11650", "U+11651", "U+11652", "U+11653", "U+11654",
      "U+11655", "U+11656", "U+11657", "U+11658", "U+11659">>,
    <<"U+116C0", "U+116C1", "U+116C2", "U+116C3", "U+116C4",
      "U+116C5", "U+116C6", "U+116C7", "U+116C8", "U+116C9">>,
    <<"U+11730", "U+11731", "U+11732", "U+11733", "U+11734",
      "U+11735", "U+11736", "U+11737", "U+11738", "U+11739">>,
    <<"U+118E0", "U+118E1", "U+118E2", "U+118E3", "U+118E4",
      "U+118E5", "U+118E6", "U+118E7", "U+118E8", "U+118E9">>,
    <<"U+11950", "U+11951", "U+11952", "U+11953", "U+11954",
      "U+11955", "U+11956", "U+11957", "U+11958", "U+11959">>,
    <<"U+11C50", "U+11C51", "U+11C52", "U+11C53", "U+11C54",
      "U+11C55", "U+11C56", "U+11C57", "U+11C58", "U+11C59">>,
    <<"U+11D50", "U+11D51", "U+11D52", "U+11D53", "U+11D54",
      "U+11D55", "U+11D56", "U+11D57", "U+11D58", "U+11D59">>,
    <<"U+11DA0", "U+11DA1", "U+11DA2", "U+11DA3", "U+11DA4",
      "U+11DA5", "U+11DA6", "U+11DA7", "U+11DA8", "U+11DA9">>,
    <<"U+16A60", "U+16A61", "U+16A62", "U+16A63", "U+16A64",
      "U+16A65", "U+16A66", "U+16A67", "U+16A68", "U+16A69">>,
    <<"U+16AC0", "U+16AC1", "U+16AC2", "U+16AC3", "U+16AC4",
      "U+16AC5", "U+16AC6", "U+16AC7", "U+16AC8", "U+16AC9">>,
    <<"U+16B50", "U+16B51", "U+16B52", "U+16B53", "U+16B54",
      "U+16B55", "U+16B56", "U+16B57", "U+16B58", "U+16B59">>,
    <<"U+1D7CE", "U+1D7CF", "U+1D7D0", "U+1D7D1", "U+1D7D2",
      "U+1D7D3", "U+1D7D4", "U+1D7D5", "U+1D7D6", "U+1D7D7">>,
    <<"U+1D7D8", "U+1D7D9", "U+1D7DA", "U+1D7DB", "U+1D7DC",
      "U+1D7DD", "U+1D7DE", "U+1D7DF", "U+1D7E0", "U+1D7E1">>,
    <<"U+1D7E2", "U+1D7E3", "U+1D7E4", "U+1D7E5", "U+1D7E6",
      "U+1D7E7", "U+1D7E8", "U+1D7E9", "U+1D7EA", "U+1D7EB">>,
    <<"U+1D7EC", "U+1D7ED", "U+1D7EE", "U+1D7EF", "U+1D7F0",
      "U+1D7F1", "U+1D7F2", "U+1D7F3", "U+1D7F4", "U+1D7F5">>,
    <<"U+1D7F6", "U+1D7F7", "U+1D7F8", "U+1D7F9", "U+1D7FA",
      "U+1D7FB", "U+1D7FC", "U+1D7FD", "U+1D7FE", "U+1D7FF">>,
    <<"U+1E140", "U+1E141", "U+1E142", "U+1E143", "U+1E144",
      "U+1E145", "U+1E146", "U+1E147", "U+1E148", "U+1E149">>,
    <<"U+1E2F0", "U+1E2F1", "U+1E2F2", "U+1E2F3", "U+1E2F4",
      "U+1E2F5", "U+1E2F6", "U+1E2F7", "U+1E2F8", "U+1E2F9">>,
    <<"U+1E950", "U+1E951", "U+1E952", "U+1E953", "U+1E954",
      "U+1E955", "U+1E956", "U+1E957", "U+1E958", "U+1E959">>,
    <<"U+1FBF0", "U+1FBF1", "U+1FBF2", "U+1FBF3", "U+1FBF4",
      "U+1FBF5", "U+1FBF6", "U+1FBF7", "U+1FBF8", "U+1FBF9">> >>

DigitChars ==
    UNION {{DecimalDigits[f][k] : k \in 1..Len(DecimalDigits[f])} :
              f \in 1..Len(DecimalDigits)}

(* The value of every decimal digit: its place in its run. *)
DigitValues ==
    [c \in DigitChars |->
        (CHOOSE k \in 1..Len(DecimalDigits[1]) :
            \E f \in 1..Len(DecimalDigits) : DecimalDigits[f][k] = c) - 1]

Digits == DecimalDigits[1]
IsDigit(c) == c \in DigitChars
DigitVal(c) == DigitValues[c]

(* The whitespace int() strips from both ends: the ASCII whitespace (the   *)
(* vertical tab is "U+000B") and the other Unicode spaces.                 *)
Whitespace ==
    {" ", "\t", "\n", "\r", "\f", "U+000B", "U+0085", "U+00A0", "U+1680",
     "U+2000", "U+2001", "U+2002", "U+2003", "U+2004", "U+2005", "U+2006",
     "U+2007", "U+2008", "U+2009", "U+200A", "U+2028", "U+2029", "U+202F",
     "U+205F", "U+3000"}

RECURSIVE LStrip(_)
LStrip(s) ==
    IF s # <<>> /\ Head(s) \in Whitespace THEN LStrip(Tail(s)) ELSE s

RECURSIVE RStrip(_)
RStrip(s) ==
    IF s # <<>> /\ s[Len(s)] \in Whitespace
    THEN RStrip(SubSeq(s, 1, Len(s) - 1)) ELSE s

RECURSIVE DigitsVal(_)
DigitsVal(s) ==
    IF s = <<>> THEN 0
    ELSE DigitsVal(SubSeq(s, 1, Len(s) - 1)) * Len(Digits) + DigitVal(s[Len(s)])

(* lev.replace('x', '') *)
ReplaceX(lev) == SelectSeq(lev, LAMBDA c : c # "x")

(* Digits with single underscores between them: "1_0", not "_10", "10_"    *)
(* or "1__0".                                                              *)
IsGrouped(body) ==
    /\ body # <<>>
    /\ IsDigit(body[1])
    /\ IsDigit(body[Len(body)])
    /\ \A k \in 1..Len(body) : IsDigit(body[k]) \/ body[k] = "_"
    /\ \A k \in 1..(Len(body) - 1) : ~(body[k] = "_" /\ body[k + 1] = "_")

(* int(text) in base 10: whitespace stripped from both ends, an optional   *)
(* sign, then decimal digits that single underscores may group; ValueError *)
(* otherwise.                                                              *)
ParseInt(text) ==
    LET stripped == RStrip(LStrip(text))
        signed == stripped # <<>> /\ Head(stripped) \in {"-", "+"}
        body == IF signed THEN Tail(stripped) ELSE stripped
        digits == SelectSeq(body, LAMBDA c : c # "_")
    IN  IF ~IsGrouped(body) THEN [err |-> "ValueError", val |-> 0]
        ELSE [err |-> "none",
              val |-> IF signed /\ Head(stripped) = "-"
                      THEN -DigitsVal(digits) ELSE DigitsVal(digits)]

(* lev_val = int(lev.replace('x', '')) *)
LevVal(lev) == ParseInt(ReplaceX(lev))

-----------------------------------------------------------------------------
(* Inputs.                                                                 *)

SeqsUpTo(S, n) == UNION {[1..k -> S] : k \in 0..n}

(* The options of the sidebar selectbox "Timeframe" and its default. *)
Intervals == {"1h", "4h", "1d"}
DefaultInterval == "1d"

(* The name reset_index gives the column it makes of the index of the      *)
(* series: the name yf.download gave the index.  The library is not part   *)
(* of the program, so either name may come back, whatever the arguments.   *)
IndexNames == {"Date", "Datetime"}
DefaultIndexName == "Date"

(* The options of the sidebar multiselect. *)
LeverageOptions ==
    << <<"1", "0", "x">>, <<"2", "5", "x">>, <<"5", "0", "x">>,
       <<"1", "0", "0", "x">> >>

(* A multiselect value: options, each at most once, here in option order. *)
Selections ==
    {SelectSeq(LeverageOptions, LAMBDA o : o \in chosen) :
        chosen \in SUBSET {LeverageOptions[k] : k \in 1..Len(LeverageOptions)}}

(* Tier strings handed to calculate_liquidation_zones when it is called on *)
(* its own: "1x", "10x", a thin space, "1_" and an Arabic-Indic zero before *)
(* the "x" (int() reads 10), "0x", "-10x" and "1__0x" (int() raises        *)
(* ValueError).                                                            *)
TierChoices ==
    {<<"1", "x">>, <<"1", "0", "x">>, <<"U+2009", "1", "_", "U+0660", "x">>,
     <<"0", "x">>, <<"-", "1", "0", "x">>, <<"1", "_", "_", "0", "x">>}

BarValues == {90, 95, 100}
Bars == {b \in [High : BarValues, Low : BarValues, Close : BarValues] :
            b.Low <= b.High /\ b.Close = b.High}

FetchValues == {95, 100}
FetchBars == {b \in [High : FetchValues, Low : FetchValues, Close : FetchValues] :
                 b.Low <= b.Close /\ b.Close <= b.High}

SwingValues == {-100, 100}
SwingCells == {NaN} \cup {<<v>> : v \in SwingValues}
SwingRows == {r \in [Low : SwingCells, High : SwingCells] :
                 IsNaN(r.Low) \/ IsNaN(r.High) \/ r.Low[1] <= r.High[1]}

(* Swing prices and leverages of the zones handed to the band filter when   *)
(* it is called on its own, and the current prices it is called with.      *)
FilterSwings == {17, 23}
FilterLevs == {2, 10}
ClosePrices == {18, 22}

-----------------------------------------------------------------------------
(* The zones of calculate_liquidation_zones.                               *)

(* The short formula pasted into the long loop: price + price / lev_val. *)
LongLiqPricePlus(price, lev_val) ==
    FAdd(FOfInt(price), FMulInt(price, FDivInt(1, lev_val)))

(* The operands of the subtraction exchanged: price / lev_val - price. *)
LongLiqPriceSwapped(price, lev_val) ==
    FSub(FMulInt(price, FDivInt(1, lev_val)), FOfInt(price))

(* price - (price * (1 / lev_val)), for lev_val # 0 *)
LongLiqPrice(price, lev_val) ==
    FSub(FOfInt(price), FMulInt(price, FDivInt(1, lev_val)))

(* The long formula pasted into the short loop: price - price / lev_val. *)
ShortLiqPriceMinus(price, lev_val) ==
    FSub(FOfInt(price), FMulInt(price, FDivInt(1, lev_val)))

(* The leverage multiplied in, not divided by: price + price * lev_val. *)
ShortLiqPriceTimes(price, lev_val) ==
    FAdd(FOfInt(price), FMulInt(price, FOfInt(lev_val)))

(* price + (price * (1 / lev_val)), for lev_val # 0 *)
ShortLiqPrice(price, lev_val) ==
    FAdd(FOfInt(price), FMulInt(price, FDivInt(1, lev_val)))

(* The two formulas on every price and every leverage of the model,        *)
(* computed once.                                                          *)
PriceValues == BarValues \cup FetchValues \cup SwingValues \cup FilterSwings
LevValues ==
    ({LevVal(t).val : t \in TierChoices} \cup
     {LevVal(LeverageOptions[k]).val : k \in 1..Len(LeverageOptions)} \cup
     FilterLevs) \ {0}
LongLiqPrices ==
    [price \in PriceValues, lev_val \in LevValues |-> LongLiqPrice(price, lev_val)]
ShortLiqPrices ==
    [price \in PriceValues, lev_val \in LevValues |-> ShortLiqPrice(price, lev_val)]

(* zones.append({'Price': liq_price, 'Type': 'Long Liq', 'Strength': lev_val}) *)
LongZone(price, lev_val) ==
    [Price |-> LongLiqPrices[price, lev_val], Type |-> "Long Liq",
     Strength |-> lev_val]

(* zones.append({'Price': liq_price, 'Type': 'Short Liq', 'Strength': lev_val}) *)
ShortZone(price, lev_val) ==
    [Price |-> ShortLiqPrices[price, lev_val], Type |-> "Short Liq",
     Strength |-> lev_val]

(* Zones handed to the band filter when it is called on its own. *)
ZoneChoices == {LongZone(p, l) : p \in FilterSwings, l \in FilterLevs} \cup
               {ShortZone(p, l) : p \in FilterSwings, l \in FilterLevs}

(* Swing prices <= 0 dropped along with the missing ones. *)
DropNaAndNonPositive(column) ==
    LET kept == SelectSeq(column, LAMBDA x : ~IsNaN(x) /\ x[1] > 0)
    IN  [k \in 1..Len(kept) |-> kept[k][1]]

(* df[column].dropna().values *)
DropNa(column) ==
    LET kept == SelectSeq(column, LAMBDA x : ~IsNaN(x))
    IN  [k \in 1..Len(kept) |-> kept[k][1]]

(* One nested loop, `for price in prices: for lev in leverages`, from the  *)
(* pair (i, j) on: acc is [zones, err]; the first exception ends the call. *)
RECURSIVE ZoneLoop(_, _, _, _, _, _)
ZoneLoop(acc, prices, leverages, i, j, side) ==
    IF acc.err # "none" \/ i > Len(prices) THEN acc
    ELSE IF j > Len(leverages) THEN ZoneLoop(acc, prices, leverages, i + 1, 1, side)
    ELSE LET parsed == LevVal(leverages[j])
             lev_val == parsed.val
         IN  IF parsed.err # "none"
             THEN [zones |-> acc.zones, err |-> parsed.err]
             ELSE IF lev_val = 0
             THEN [zones |-> acc.zones, err |-> "ZeroDivisionError"]
             ELSE ZoneLoop(
                    [zones |-> Append(acc.zones,
                                 IF side = "Long Liq"
                                 THEN LongZone(prices[i], lev_val)
                                 ELSE ShortZone(prices[i], lev_val)),
                     err |-> "none"],
                    prices, leverages, i, j + 1, side)

(* The whole function: the loop over the swing lows, then the loop over    *)
(* the swing highs, appending to one list.                                 *)
calculate_liquidation_zones(swing_low_col, swing_high_col, leverages) ==
    LET swing_lows == DropNa(swing_low_col)
        swing_highs == DropNa(swing_high_col)
        longs == ZoneLoop([zones |-> <<>>, err |-> "none"],
                          swing_lows, leverages, 1, 1, "Long Liq")
    IN  ZoneLoop(longs, swing_highs, leverages, 1, 1, "Short Liq")

-----------------------------------------------------------------------------
(* The band filter of the main run.                                        *)

(* The literals 0.85 and 1.15: the doubles nearest to 17/20 and 23/20. *)
LowerRatio == FDivInt(17, 20)
UpperRatio == FDivInt(23, 20)

(* df['Close'].iloc[-1] *)
LastClose(d) == d[Len(d)].Close

(* The bounds of the band included: >= and <= in the place of > and <. *)
InBandInclusive(zone, cp) ==
    /\ ~DLt(zone.Price, FMulInt(cp, LowerRatio))
    /\ ~DGt(zone.Price, FMulInt(cp, UpperRatio))

(* One entry of range_mask. *)
InBand(zone, cp) ==
    /\ DGt(zone.Price, FMulInt(cp, LowerRatio))
    /\ DLt(zone.Price, FMulInt(cp, UpperRatio))

(* The first row selected lost: liq_df[range_mask].iloc[1:]. *)
ApplyMaskDropFirst(zones, cp) ==
    LET kept == SelectSeq(zones, LAMBDA z : InBand(z, cp))
    IN  IF kept = <<>> THEN kept ELSE Tail(kept)

(* liq_df[range_mask] *)
ApplyMask(zones, cp) == SelectSeq(zones, LAMBDA z : InBand(z, cp))

(* pd.DataFrame([]) has no columns: liq_df['Price'] raises KeyError on it. *)
PriceColumnError(zones) == IF zones = <<>> THEN "KeyError: 'Price'" ELSE "none"

(* x=df['Date'] raises KeyError on a series that has no column 'Date'. *)
DateColumnError(name) == IF name = "Date" THEN "none" ELSE "KeyError: 'Date'"

(* The mask computed without the `if not liq_df.empty` guard. *)
BandFilterUnguarded(zones, cp) ==
    [zones |-> ApplyMask(zones, cp), err |-> PriceColumnError(zones)]

(* Lines 98-102: `if not liq_df.empty` guards the mask; an empty frame is  *)
(* passed on as it is.                                                     *)
BandFilter(zones, cp) ==
    IF zones # <<>>
    THEN [zones |-> ApplyMask(zones, cp), err |-> PriceColumnError(zones)]
    ELSE [zones |-> zones, err |-> "none"]

-----------------------------------------------------------------------------
(* The steps of the program, each from one position of pc to the next.     *)

(* find_swing_points(df, order): both swing columns, or the exception. *)
find_swing_points(d, ord) ==
    IF OrderError(ord) # "none"
    THEN [Swing_High |-> <<>>, Swing_Low |-> <<>>, err |-> OrderError(ord)]
    ELSE [Swing_High |-> SwingColumn(HighValues(d), HighExtrema(HighValues(d), ord)),
          Swing_Low |-> SwingColumn(LowValues(d), LowExtrema(LowValues(d), ord)),
          err |-> "none"]

FindSwingPointsStep(from, to) ==
    /\ pc = from
    /\ LET r == find_swing_points(df, order)
       IN  /\ Swing_High' = r.Swing_High
           /\ Swing_Low' = r.Swing_Low
           /\ err' = r.err
           /\ pc' = IF r.err = "none" THEN to ELSE "raised"
    /\ UNCHANGED <<interval, date_column, leverage_tiers, df, order, liq_df, current_price,
                   liq_df_filtered, refiltered>>

CalculateZonesStep(from, to) ==
    /\ pc = from
    /\ LET r == calculate_liquidation_zones(Swing_Low, Swing_High, leverage_tiers)
       IN  /\ err' = r.err
           /\ liq_df' = IF r.err = "none" THEN r.zones ELSE liq_df
           /\ pc' = IF r.err = "none" THEN to ELSE "raised"
    /\ UNCHANGED <<interval, date_column, leverage_tiers, df, order, Swing_High, Swing_Low,
                   current_price, liq_df_filtered, refiltered>>

(* Lines 95-102: the current price is read, then the zones are filtered. *)
FilterStep(from, to) ==
    /\ pc = from
    /\ current_price' = <<LastClose(df)>>
    /\ LET r == BandFilter(liq_df, LastClose(df))
       IN  /\ err' = r.err
           /\ liq_df_filtered' = IF r.err = "none" THEN r.zones ELSE liq_df_filtered
           /\ pc' = IF r.err = "none" THEN to ELSE "raised"
    /\ UNCHANGED <<interval, date_column, leverage_tiers, df, order, Swing_High, Swing_Low, liq_df,
                   refiltered>>

(* The same filter, with the same current price, on its own result. *)
RefilterStep(from, to) ==
    /\ pc = from
    /\ LET r == BandFilter(liq_df_filtered, current_price[1])
       IN  /\ err' = r.err
           /\ refiltered' = IF r.err = "none" THEN r.zones ELSE refiltered
           /\ pc' = IF r.err = "none" THEN to ELSE "raised"
    /\ UNCHANGED <<interval, date_column, leverage_tiers, df, order, Swing_High, Swing_Low, liq_df,
                   current_price, liq_df_filtered>>

-----------------------------------------------------------------------------
(* The main run (lines 84-152).                                            *)

Init ==
    /\ pc = "idle"
    /\ interval \in Intervals
    /\ date_column = DefaultIndexName
    /\ leverage_tiers \in Selections
    /\ df = <<>>
    /\ order = DefaultOrder
    /\ Swing_High = <<>>
    /\ Swing_Low = <<>>
    /\ liq_df = <<>>
    /\ current_price = <<>>
    /\ liq_df_filtered = <<>>
    /\ refiltered = <<>>
    /\ err = "none"

(* The button is pressed and get_market_data returns a series, maybe empty, *)
(* its index turned into a column.                                          *)
get_market_data ==
    /\ pc = "idle"
    /\ df' \in SeqsUpTo(FetchBars, MaxFetch)
    /\ date_column' \in IndexNames
    /\ pc' = "fetched"
    /\ UNCHANGED <<interval, leverage_tiers, order, Swing_High, Swing_Low, liq_df,
                   current_price, liq_df_filtered, refiltered, err>>

(* Lines 88, 148-149: st.error("Could not fetch data."). *)
NoData ==
    /\ pc = "fetched"
    /\ df = <<>>
    /\ pc' = "no_data"
    /\ UNCHANGED <<interval, date_column, leverage_tiers, df, order, Swing_High, Swing_Low, liq_df,
                   current_price, liq_df_filtered, refiltered, err>>

RunFindSwingPoints == df # <<>> /\ FindSwingPointsStep("fetched", "swings")

RunCalculateZones == CalculateZonesStep("swings", "zones")

RunFilter == FilterStep("zones", "filtered")

(* Lines 104-146: the chart is drawn from df and liq_df_filtered.  Line 109 *)
(* reads df['Date']: a series without that column ends the run with a      *)
(* KeyError before anything is drawn.                                      *)
Render ==
    /\ pc = "filtered"
    /\ err' = DateColumnError(date_column)
    /\ pc' = IF DateColumnError(date_column) = "none" THEN "rendered" ELSE "raised"
    /\ UNCHANGED <<interval, date_column, leverage_tiers, df, order, Swing_High, Swing_Low,
                   liq_df, current_price, liq_df_filtered, refiltered>>

(* The script runs again from the top, with the sidebar as it then is. *)
Rerun ==
    /\ pc \in {"rendered", "no_data", "raised"}
    /\ pc' = "idle"
    /\ interval' \in Intervals
    /\ date_column' = DefaultIndexName
    /\ leverage_tiers' \in Selections
    /\ df' = <<>>
    /\ Swing_High' = <<>>
    /\ Swing_Low' = <<>>
    /\ liq_df' = <<>>
    /\ current_price' = <<>>
    /\ liq_df_filtered' = <<>>
    /\ err' = "none"
    /\ UNCHANGED <<order, refiltered>>

Next ==
    \/ get_market_data
    \/ NoData
    \/ RunFindSwingPoints
    \/ RunCalculateZones
    \/ RunFilter
    \/ Render
    \/ Rerun

Spec == Init /\ [][Next]_vars

-----------------------------------------------------------------------------
(* find_swing_points called on its own, on any series and any order.       *)

InitDetect ==
    /\ pc = "call_find_swing_points"
    /\ interval = DefaultInterval
    /\ date_column = DefaultIndexName
    /\ leverage_tiers = <<>>
    /\ df \in SeqsUpTo(Bars, MaxBars)
    /\ order \in 0..MaxOrder
    /\ Swing_High = <<>>
    /\ Swing_Low = <<>>
    /\ liq_df = <<>>
    /\ current_price = <<>>
    /\ liq_df_filtered = <<>>
    /\ refiltered = <<>>
    /\ err = "none"

CallFindSwingPoints == FindSwingPointsStep("call_find_swing_points", "swings")

NextDetect == CallFindSwingPoints

SpecDetect == InitDetect /\ [][NextDetect]_vars

-----------------------------------------------------------------------------
(* calculate_liquidation_zones called on its own, on any swing columns and *)
(* any tier strings.                                                       *)

InitZones ==
    /\ pc = "call_calculate_liquidation_zones"
    /\ interval = DefaultInterval
    /\ date_column = DefaultIndexName
    /\ leverage_tiers \in SeqsUpTo(TierChoices, MaxTiers)
    /\ df = <<>>
    /\ order = DefaultOrder
    /\ \E rows \in SeqsUpTo(SwingRows, MaxRows) :
          /\ Swing_High = [k \in 1..Len(rows) |-> rows[k].High]
          /\ Swing_Low = [k \in 1..Len(rows) |-> rows[k].Low]
    /\ liq_df = <<>>
    /\ current_price = <<>>
    /\ liq_df_filtered = <<>>
    /\ refiltered = <<>>
    /\ err = "none"

CallCalculateZones == CalculateZonesStep("call_calculate_liquidation_zones", "zones")

NextZones == CallCalculateZones

SpecZones == InitZones /\ [][NextZones]_vars

-----------------------------------------------------------------------------
(* The band filter on its own, on any zones and any current price, and     *)
(* then once more on its own result.                                       *)

InitFilter ==
    /\ pc = "call_filter"
    /\ interval = DefaultInterval
    /\ date_column = DefaultIndexName
    /\ leverage_tiers = <<>>
    /\ \E cp \in ClosePrices : df = <<[High |-> cp, Low |-> cp, Close |-> cp]>>
    /\ order = DefaultOrder
    /\ Swing_High = <<>>
    /\ Swing_Low = <<>>
    /\ liq_df \in SeqsUpTo(ZoneChoices, MaxZones)
    /\ current_price = <<>>
    /\ liq_df_filtered = <<>>
    /\ refiltered = <<>>
    /\ err = "none"

CallFilter == FilterStep("call_filter", "filtered")

CallFilterAgain == RefilterStep("filtered", "refiltered")

NextFilter == CallFilter \/ CallFilterAgain

SpecFilter == InitFilter /\ [][NextFilter]_vars

-----------------------------------------------------------------------------
(* Properties of find_swing_points, under SpecDetect.                      *)

Returned == pc = "swings"

(* The indices of the bars that exist within w positions of bar i. *)
Window(i, n, w) == {j \in 1..n : i - w <= j /\ j <= i + w}

DominatesHighs(i) ==
    \A j \in Window(i, Len(df), order) : df[i].High >= df[j].High

DominatesLows(i) ==
    \A j \in Window(i, Len(df), order) : df[i].Low <= df[j].Low

NoSwingMarked ==
    /\ \A i \in 1..Len(Swing_High) : IsNaN(Swing_High[i])
    /\ \A i \in 1..Len(Swing_Low) : IsNaN(Swing_Low[i])

(* C1: for every series and every order >= 1, bar i is marked a swing High  *)
(* if and only if its high is >= the high of every existing bar within      *)
(* order positions of it (the window is cut at the ends of the series,      *)
(* never wrapped), and a swing Low if and only if its low is <= the low of  *)
(* every such bar; a marked bar carries its own high (low), an unmarked one *)
(* NaN.                                                                     *)
C1_SwingIffDominatesWindow ==
    Returned =>
        /\ Len(Swing_High) = Len(df)
        /\ Len(Swing_Low) = Len(df)
        /\ \A i \in 1..Len(df) :
              /\ Swing_High[i] = (IF DominatesHighs(i) THEN <<df[i].High>> ELSE NaN)
              /\ Swing_Low[i] = (IF DominatesLows(i) THEN <<df[i].Low>> ELSE NaN)

(* The last bar is a swing High of its cut window although the first bar is *)
(* higher, and a bar in between is no swing High.                           *)
C1_Witness ==
    /\ Returned
    /\ order = 1
    /\ Len(df) >= 3
    /\ ~IsNaN(Swing_High[Len(df)])
    /\ df[1].High > df[Len(df)].High
    /\ \E i \in 2..(Len(df) - 1) : IsNaN(Swing_High[i])

ShortSeries == order >= 1 /\ Len(df) < 2 * order + 1

(* C2 as stated: a series of fewer than 2*order+1 bars gives an empty       *)
(* result, no bar marked a swing High or a swing Low, and no exception.     *)
C2_ShortSeriesGivesNothing ==
    (pc # "call_find_swing_points" /\ ShortSeries) =>
        (err = "none" /\ NoSwingMarked)

(* C2 amended: on a series of fewer than 2*order+1 bars (order >= 1) no      *)
(* exception is raised and bars are still marked: every bar that holds the  *)
(* highest high of the series is a swing High and every bar that holds its  *)
(* lowest low is a swing Low, so the result is empty only when the series   *)
(* is.                                                                      *)
C2_ShortSeriesStillMarked ==
    (pc # "call_find_swing_points" /\ ShortSeries) =>
        /\ err = "none"
        /\ Returned
        /\ \A i \in 1..Len(df) :
              /\ (\A j \in 1..Len(df) : df[i].High >= df[j].High)
                    => Swing_High[i] = <<df[i].High>>
              /\ (\A j \in 1..Len(df) : df[i].Low <= df[j].Low)
                    => Swing_Low[i] = <<df[i].Low>>
        /\ (NoSwingMarked <=> df = <<>>)

(* A short series, two bars with order 1, with one bar marked a swing High  *)
(* and the other not.                                                       *)
C2_Witness ==
    /\ Returned
    /\ ShortSeries
    /\ Len(df) = 2
    /\ \E i, j \in 1..Len(df) : ~IsNaN(Swing_High[i]) /\ IsNaN(Swing_High[j])

-----------------------------------------------------------------------------
(* Properties of calculate_liquidation_zones, under SpecZones.             *)

Called == pc # "call_calculate_liquidation_zones"
ZonesReturned == pc = "zones"

LowIdx == {i \in 1..Len(Swing_Low) : ~IsNaN(Swing_Low[i])}
HighIdx == {i \in 1..Len(Swing_High) : ~IsNaN(Swing_High[i])}
NumTiers == Len(leverage_tiers)
NumLows == Cardinality(LowIdx)
NumHighs == Cardinality(HighIdx)

(* The tier of position j as a number, where it is one. *)
TierVal(j) == LevVal(leverage_tiers[j]).val
TierParses(j) == LevVal(leverage_tiers[j]).err = "none"

(* A double is near the real number num / den when the two differ by at    *)
(* most num / den * 2^-NearBits: the three roundings of the code's formula *)
(* (of 1 / lev_val, of the product, of the sum) stay within that.          *)
NearBits == MantissaBits - 2
Near(price, num, den) ==
    DLe(DScale(DAbs(DSub(DMulInt(price, den), DOfInt(num))), NearBits),
        DOfInt(Abs(num)))

(* Zone z is the Long zone of (swing Low p, tier l): its price is          *)
(* p - p/L = p * (l - 1) / l.                                              *)
IsLongOf(z, price, l) ==
    /\ z.Type = "Long Liq"
    /\ z.Strength = l
    /\ Near(z.Price, price * (l - 1), l)

(* Zone z is the Short zone of (swing High p, tier l): its price is        *)
(* p + p/L = p * (l + 1) / l.                                              *)
IsShortOf(z, price, l) ==
    /\ z.Type = "Short Liq"
    /\ z.Strength = l
    /\ Near(z.Price, price * (l + 1), l)

(* Position of the zone of swing i of its side and tier j: the list holds  *)
(* the zones of the swing lows first, swing by swing and tier by tier,     *)
(* then those of the swing highs.                                          *)
LongPos(i, j) == (Cardinality({h \in LowIdx : h <= i}) - 1) * NumTiers + j
ShortPos(i, j) ==
    (NumLows + Cardinality({h \in HighIdx : h <= i}) - 1) * NumTiers + j

(* C3: the collection returned holds one 'Long Liq' record of price        *)
(* p - p/L (to the rounding of a double) for every (swing Low p, tier L)    *)
(* pair and one 'Short Liq' record of price p + p/L for every (swing High   *)
(* p, tier L) pair, each pair at a position of its own, and nothing else:   *)
(* its length is (#Low + #High) * #tiers; with no swing or no tier it is    *)
(* empty, without an error.                                                 *)
C3_OneZonePerSwingAndTier ==
    /\ ZonesReturned =>
          /\ Len(liq_df) = (NumLows + NumHighs) * NumTiers
          /\ \A i \in LowIdx : \A j \in 1..NumTiers :
                /\ LongPos(i, j) \in 1..(NumLows * NumTiers)
                /\ IsLongOf(liq_df[LongPos(i, j)], Swing_Low[i][1], TierVal(j))
                /\ \A h \in LowIdx : \A g \in 1..NumTiers :
                      LongPos(h, g) = LongPos(i, j) => (h = i /\ g = j)
          /\ \A i \in HighIdx : \A j \in 1..NumTiers :
                /\ ShortPos(i, j) \in (NumLows * NumTiers + 1)..Len(liq_df)
                /\ IsShortOf(liq_df[ShortPos(i, j)], Swing_High[i][1], TierVal(j))
                /\ \A h \in HighIdx : \A g \in 1..NumTiers :
                      ShortPos(h, g) = ShortPos(i, j) => (h = i /\ g = j)
    /\ (Called /\ (NumLows + NumHighs = 0 \/ NumTiers = 0)) =>
          (ZonesReturned /\ err = "none" /\ liq_df = <<>>)

(* Two swings and two tiers: four zones, of both sides. *)
C3_Witness ==
    /\ ZonesReturned
    /\ NumLows = 1
    /\ NumHighs = 1
    /\ NumTiers = 2
    /\ Len(liq_df) = 4
    /\ \E k, m \in 1..Len(liq_df) :
          liq_df[k].Type = "Long Liq" /\ liq_df[m].Type = "Short Liq"

(* The swing and the tier zone k was computed from. *)
Nth(S, m) == CHOOSE i \in S : Cardinality({h \in S : h <= i}) = m
FromLow(k) == k <= NumLows * NumTiers
SourcePrice(k) ==
    IF FromLow(k)
    THEN Swing_Low[Nth(LowIdx, ((k - 1) \div NumTiers) + 1)][1]
    ELSE Swing_High[Nth(HighIdx, ((k - NumLows * NumTiers - 1) \div NumTiers) + 1)][1]
SourceTier(k) == TierVal(((k - 1) % NumTiers) + 1)

(* C4: a 'Long Liq' zone comes from a swing Low and, for a positive swing   *)
(* price and leverage > 1, lies strictly below that swing's price; a 'Short *)
(* Liq' zone comes from a swing High and, for a positive swing price and a  *)
(* positive leverage, lies strictly above it; no Long zone comes from a     *)
(* High swing and no Short zone from a Low swing.                           *)
C4_LongBelowLowShortAboveHigh ==
    ZonesReturned =>
        \A k \in 1..Len(liq_df) :
            /\ liq_df[k].Type = (IF FromLow(k) THEN "Long Liq" ELSE "Short Liq")
            /\ liq_df[k].Strength = SourceTier(k)
            /\ (FromLow(k) /\ SourcePrice(k) > 0 /\ SourceTier(k) > 1)
                  => DLt(liq_df[k].Price, DOfInt(SourcePrice(k)))
            /\ (~FromLow(k) /\ SourcePrice(k) > 0 /\ SourceTier(k) > 0)
                  => DGt(liq_df[k].Price, DOfInt(SourcePrice(k)))

(* A Long zone below a positive swing Low at leverage 10 and a Short zone   *)
(* above a positive swing High, in one collection.                          *)
C4_Witness ==
    /\ ZonesReturned
    /\ \E k, m \in 1..Len(liq_df) :
          /\ FromLow(k) /\ SourcePrice(k) > 0 /\ SourceTier(k) > 1
          /\ DLt(liq_df[k].Price, DOfInt(SourcePrice(k)))
          /\ ~FromLow(m) /\ SourcePrice(m) > 0 /\ SourceTier(m) > 0
          /\ DGt(liq_df[m].Price, DOfInt(SourcePrice(m)))

SwingsExist == NumLows + NumHighs > 0

(* A (swing, tier) pair the projection is run on whose tier is <= 0 or      *)
(* whose swing price is <= 0.                                               *)
InvalidPairExists ==
    \E j \in 1..NumTiers :
        /\ TierParses(j)
        /\ \/ SwingsExist /\ TierVal(j) <= 0
           \/ \E i \in LowIdx : Swing_Low[i][1] <= 0
           \/ \E i \in HighIdx : Swing_High[i][1] <= 0

(* C7 as stated: whenever a leverage tier is <= 0 or a swing price is <= 0  *)
(* the projection fails: an error is surfaced to the caller and no zone is  *)
(* computed for that input.                                                 *)
C7_InvalidInputFails ==
    (Called /\ InvalidPairExists) => (err # "none" /\ pc = "raised")

(* C7 amended: calculate_liquidation_zones validates neither leverage nor   *)
(* price.  The call fails, the error surfaced to the caller and no          *)
(* collection returned, exactly when there is at least one swing and some   *)
(* tier is 0 (ZeroDivisionError, from 1 / lev_val) or is no integer string  *)
(* (ValueError, from int()); a negative tier or a swing price <= 0 raises   *)
(* nothing: the zone is computed by the same formula and emitted.           *)
C7_OnlyZeroTierFails ==
    Called =>
        /\ err \in {"none", "ZeroDivisionError", "ValueError"}
        /\ (pc = "raised") <=> (err # "none")
        /\ (err # "none") <=>
              (SwingsExist /\ \E j \in 1..NumTiers : ~TierParses(j) \/ TierVal(j) = 0)
        /\ (err = "ZeroDivisionError") =>
              \E j \in 1..NumTiers : TierParses(j) /\ TierVal(j) = 0
        /\ (err = "ValueError") => \E j \in 1..NumTiers : ~TierParses(j)
        /\ (err = "none") =>
              /\ \A i \in LowIdx : \A j \in 1..NumTiers :
                    (Swing_Low[i][1] <= 0 \/ TierVal(j) < 0) =>
                        /\ LongPos(i, j) \in 1..Len(liq_df)
                        /\ IsLongOf(liq_df[LongPos(i, j)], Swing_Low[i][1],
                                    TierVal(j))
              /\ \A i \in HighIdx : \A j \in 1..NumTiers :
                    (Swing_High[i][1] <= 0 \/ TierVal(j) < 0) =>
                        /\ ShortPos(i, j) \in 1..Len(liq_df)
                        /\ IsShortOf(liq_df[ShortPos(i, j)], Swing_High[i][1],
                                     TierVal(j))

(* A zone of negative price, from a negative swing price, and a zone of     *)
(* negative leverage, both emitted.                                         *)
C7_Witness ==
    /\ ZonesReturned
    /\ \E k, m \in 1..Len(liq_df) :
          /\ SourcePrice(k) < 0 /\ liq_df[k].Price.s < 0
          /\ SourceTier(m) < 0 /\ liq_df[m].Strength < 0

(* C8 as stated: every zone computed from a swing price > 0 and a tier that *)
(* is a positive integer has a strictly positive price and one of the two   *)
(* side tags.                                                               *)
C8_ZonePricePositive ==
    ZonesReturned =>
        \A k \in 1..Len(liq_df) :
            (SourcePrice(k) > 0 /\ SourceTier(k) >= 1) =>
                /\ liq_df[k].Price.s > 0
                /\ liq_df[k].Type \in {"Long Liq", "Short Liq"}

(* C8 amended: every zone computed from a swing price > 0 and an integer    *)
(* tier > 1 has a strictly positive price and one of the two side tags      *)
(* 'Long Liq' and 'Short Liq'; at tier 1 a 'Short Liq' zone is positive too *)
(* and a 'Long Liq' zone has price exactly 0.                               *)
C8_ZonePricePositiveAboveOne ==
    ZonesReturned =>
        \A k \in 1..Len(liq_df) :
            /\ liq_df[k].Type \in {"Long Liq", "Short Liq"}
            /\ (SourcePrice(k) > 0 /\ SourceTier(k) > 1) =>
                  liq_df[k].Price.s > 0
            /\ (SourcePrice(k) > 0 /\ SourceTier(k) = 1) =>
                  IF liq_df[k].Type = "Long Liq"
                  THEN liq_df[k].Price = Zero
                  ELSE liq_df[k].Price.s > 0

(* Zones of a positive swing Low at tier 1 (price 0) and at tier 10         *)
(* (positive price).                                                        *)
C8_Witness ==
    /\ ZonesReturned
    /\ \E k, m \in 1..Len(liq_df) :
          /\ FromLow(k) /\ SourcePrice(k) > 0 /\ SourceTier(k) = 1
          /\ liq_df[k].Price = Zero
          /\ FromLow(m) /\ SourcePrice(m) > 0 /\ SourceTier(m) > 1
          /\ liq_df[m].Price.s > 0

(* |liq - p| of zone k. *)
Distance(k) == DAbs(DSub(liq_df[k].Price, DOfInt(SourcePrice(k))))
SameSwing(k, m) == (k - 1) \div NumTiers = (m - 1) \div NumTiers

(* C10: for a swing price p > 0 and one side, of two zones computed for     *)
(* positive tiers L1 < L2 the one of L2 is strictly nearer to p.            *)
C10_HigherLeverageNearer ==
    ZonesReturned =>
        \A k, m \in 1..Len(liq_df) :
            (/\ SameSwing(k, m)
             /\ SourcePrice(k) > 0
             /\ 0 < SourceTier(k)
             /\ SourceTier(k) < SourceTier(m))
                => DLt(Distance(m), Distance(k))

(* The zones of one positive swing High at tiers 1 and 10. *)
C10_Witness ==
    /\ ZonesReturned
    /\ \E k, m \in 1..Len(liq_df) :
          /\ SameSwing(k, m)
          /\ ~FromLow(k)
          /\ SourcePrice(k) > 0
          /\ SourceTier(k) = 1
          /\ SourceTier(m) > 1
          /\ DLt(Distance(m), Distance(k))

-----------------------------------------------------------------------------
(* Properties of the band filter, under SpecFilter.                        *)

(* The bounds of the band as line 99 computes them: the doubles            *)
(* current_price * 0.85 and current_price * 1.15.                          *)
LowerBound(cp) == FMulInt(cp, FDivInt(17, 20))
UpperBound(cp) == FMulInt(cp, FDivInt(23, 20))

(* The price the zone holds lies strictly between the bounds. *)
StrictlyInside(zone, cp) ==
    /\ DLt(LowerBound(cp), zone.Price)
    /\ DLt(zone.Price, UpperBound(cp))

OnBound(zone, cp) == zone.Price \in {LowerBound(cp), UpperBound(cp)}

InsideIdx(zones, cp) == {k \in 1..Len(zones) : StrictlyInside(zones[k], cp)}

(* C5: the filter step keeps exactly the zones whose price is strictly      *)
(* greater than current_price * 0.85 and strictly less than current_price * *)
(* 1.15, price and bounds being the doubles the program holds (a zone whose *)
(* price equals either bound is dropped), in their original order, and      *)
(* leaves the unfiltered collection as it was.                              *)
C5_FilterKeepsStrictBandInOrder ==
    [][pc = "call_filter" =>
          /\ liq_df' = liq_df
          /\ current_price' = <<LastClose(df)>>
          /\ Len(liq_df_filtered') = Cardinality(InsideIdx(liq_df, LastClose(df)))
          /\ \A m \in 1..Len(liq_df_filtered') :
                liq_df_filtered'[m] = liq_df[Nth(InsideIdx(liq_df, LastClose(df)), m)]
          /\ \A k \in 1..Len(liq_df) :
                OnBound(liq_df[k], LastClose(df)) =>
                    \A m \in 1..Len(liq_df_filtered') :
                        liq_df_filtered'[m] # liq_df[k]
      ]_vars

(* Three zones at current price 18: the Long zone of 23 at 10x, whose price *)
(* 20.7 is the upper bound 18 * 1.15 and is dropped, and two zones strictly *)
(* inside, one of them the Long zone of 17 at 10x, whose price 15.3 is      *)
(* above the lower bound 18 * 0.85 by the rounding of the product alone.    *)
C5_Witness ==
    /\ pc = "filtered"
    /\ Len(liq_df) = 3
    /\ Len(liq_df_filtered) = 2
    /\ \E k \in 1..Len(liq_df) : liq_df[k].Price = UpperBound(current_price[1])
    /\ \E m \in 1..Len(liq_df_filtered) :
          /\ liq_df_filtered[m].Type = "Long Liq"
          /\ DLe(DSub(liq_df_filtered[m].Price, LowerBound(current_price[1])),
                 DScale(DOfInt(1), 4 - MantissaBits))

(* C6: the filter applied, with the same current price and bounds, to the   *)
(* collection it has kept gives that collection again.                      *)
C6_FilterIdempotent ==
    pc = "refiltered" => (refiltered = liq_df_filtered /\ err = "none")

(* Some zones dropped and two kept by the first pass, the second pass done. *)
C6_Witness ==
    /\ pc = "refiltered"
    /\ Len(liq_df_filtered) = 2
    /\ Len(liq_df) = 3
    /\ refiltered = liq_df_filtered

-----------------------------------------------------------------------------
(* Properties of the main run, under Spec.                                 *)

(* C9: emptiness passes through the run, from the fetch to the band filter, *)
(* without any of these stages raising: the one exception of a run is the   *)
(* chart's, after the filter.  An empty fetched series goes no further than *)
(* the "no data" message, with no swing point, no zone and no filtered      *)
(* zone; with no swing or no tier selected the zone collection is empty,    *)
(* and whenever it is empty the band filter step raises nothing and passes  *)
(* it on empty.                                                             *)
C9_EmptinessPropagates ==
    /\ pc \in {"idle", "fetched", "no_data", "swings", "zones", "filtered",
                "rendered"} => err = "none"
    /\ pc = "raised" =>
          /\ err = DateColumnError(date_column)
          /\ err # PriceColumnError(<<>>)
          /\ current_price = <<LastClose(df)>>
    /\ df = <<>> =>
          /\ pc \in {"idle", "fetched", "no_data"}
          /\ NoSwingMarked
          /\ liq_df = <<>>
          /\ liq_df_filtered = <<>>
    /\ (pc \in {"zones", "filtered", "rendered", "raised"}
          /\ (NumLows + NumHighs = 0 \/ NumTiers = 0)) => liq_df = <<>>
    /\ (pc \in {"filtered", "rendered", "raised"} /\ liq_df = <<>>)
          => liq_df_filtered = <<>>

(* A run on a fetched series with no tier selected, through the band filter *)
(* to the chart: swings found, no zone, nothing kept by the filter.         *)
C9_Witness ==
    /\ pc = "rendered"
    /\ df # <<>>
    /\ NumLows + NumHighs > 0
    /\ leverage_tiers = <<>>
    /\ liq_df = <<>>
    /\ liq_df_filtered = <<>>

=============================================================================
